---- MODULE Spec2Model ----
(***************************************************************************)
(* Model of src/main.ts, the HLS (m3u8) downloader.                        *)
(*                                                                         *)
(* Strings are sequences of one-character strings, so that startsWith,     *)
(* includes, split, join, trim, the BANDWIDTH regular expression and       *)
(* parseInt are computed the way the code computes them.                   *)
(***************************************************************************)
EXTENDS Integers, Sequences, FiniteSets, TLC

(***************************************************************************)
(* Bounds of the model.                                                    *)
(***************************************************************************)
MaxSegs == 5

MaxConcurrency == 3

MaxVariants == 3

MaxBandwidth == 2

MaxDepth == 3
\* the largest number of path segments of a base URL of the resolver harness
MaxPath == 2

(***************************************************************************)
(* String primitives (JavaScript String.prototype).                        *)
(***************************************************************************)
NL == "\n"

Digits == <<"0", "1", "2", "3", "4", "5", "6", "7", "8", "9">>

IsDigit(c) == \E d \in 1..10 : Digits[d] = c

DigitVal(c) == (CHOOSE d \in 1..10 : Digits[d] = c) - 1

\* the value lines[i + 1] has when i + 1 is past the end of the array
Undefined == <<"undefined">>

\* the completion of a call that threw a TypeError
Thrown == <<"TypeError">>

StartsWith(s, p) == Len(s) >= Len(p) /\ SubSeq(s, 1, Len(p)) = p

Includes(s, p) == \E k \in 1..(Len(s) - Len(p) + 1) : SubSeq(s, k, k + Len(p) - 1) = p

RECURSIVE Split(_, _)
\* s.split(c) for a one-character separator c: never empty, "" splits to [""]
Split(s, c) ==
  IF \A k \in 1..Len(s) : s[k] # c
  THEN <<s>>
  ELSE LET k == CHOOSE j \in 1..Len(s) : s[j] = c /\ \A h \in 1..(j - 1) : s[h] # c
       IN <<SubSeq(s, 1, k - 1)>> \o Split(SubSeq(s, k + 1, Len(s)), c)

RECURSIVE Join(_, _)
\* parts.join(c)
Join(parts, c) ==
  IF Len(parts) = 0 THEN <<>>
  ELSE IF Len(parts) = 1 THEN parts[1]
  ELSE parts[1] \o <<c>> \o Join(Tail(parts), c)

\* parts.pop(): the array without its last element
Pop(parts) == SubSeq(parts, 1, Len(parts) - 1)

IsSpace(c) == c \in {" ", "\t", "\r", NL}

RECURSIVE Trim(_)
\* s.trim()
Trim(s) ==
  IF Len(s) = 0 THEN s
  ELSE IF IsSpace(s[1]) THEN Trim(Tail(s))
  ELSE IF IsSpace(s[Len(s)]) THEN Trim(SubSeq(s, 1, Len(s) - 1))
  ELSE s

RECURSIVE ParseInt(_)
\* parseInt of a non-empty run of decimal digits
ParseInt(ds) ==
  IF Len(ds) = 0 THEN 0
  ELSE ParseInt(SubSeq(ds, 1, Len(ds) - 1)) * 10 + DigitVal(ds[Len(ds)])

RECURSIVE ToDigits(_)
\* the decimal numeral of a natural number
ToDigits(n) ==
  IF n < 10 THEN <<Digits[n + 1]>>
  ELSE ToDigits(n \div 10) \o <<Digits[(n % 10) + 1]>>

RECURSIVE DigitRun(_, _)
\* the longest run of digits of s starting at position k (the greedy \d+)
DigitRun(s, k) ==
  IF k <= Len(s) /\ IsDigit(s[k]) THEN <<s[k]>> \o DigitRun(s, k + 1) ELSE <<>>

(***************************************************************************)
(* Literals of the source.                                                 *)
(***************************************************************************)
STREAM_INF == <<"#", "E", "X", "T", "-", "X", "-", "S", "T", "R", "E", "A", "M", "-", "I", "N", "F">>

BANDWIDTH_EQ == <<"B", "A", "N", "D", "W", "I", "D", "T", "H", "=">>

HTTP == <<"h", "t", "t", "p", ":", "/", "/">>

HTTPS == <<"h", "t", "t", "p", "s", ":", "/", "/">>

\* line.match(/BANDWIDTH=(\d+)/): group 1 of the leftmost match, <<>> for null
BandwidthMatch(line) ==
  LET hits == {k \in 1..Len(line) :
                 /\ k + Len(BANDWIDTH_EQ) <= Len(line)
                 /\ SubSeq(line, k, k + Len(BANDWIDTH_EQ) - 1) = BANDWIDTH_EQ
                 /\ IsDigit(line[k + Len(BANDWIDTH_EQ)])}
  IN IF hits = {} THEN <<>>
     ELSE LET k == CHOOSE h \in hits : \A g \in hits : h <= g
          IN DigitRun(line, k + Len(BANDWIDTH_EQ))

\* baseUrl.match(/^(https?:\/\/[^\/]+)/): group 1, <<>> for null
DomainMatch(baseUrl) ==
  LET scheme == IF StartsWith(baseUrl, HTTPS) THEN HTTPS
                ELSE IF StartsWith(baseUrl, HTTP) THEN HTTP ELSE <<>>
      rest == SubSeq(baseUrl, Len(scheme) + 1, Len(baseUrl))
      host == Split(rest, "/")[1]
  IN IF scheme = <<>> \/ host = <<>> THEN <<>> ELSE scheme \o host

\* resolveUrl(url, baseUrl); Thrown when url is undefined (url.startsWith throws)
resolveUrl(url, baseUrl) ==
  IF url = Undefined THEN Thrown
  ELSE IF StartsWith(url, HTTP) \/ StartsWith(url, HTTPS) THEN url
  ELSE LET baseDir == Join(Pop(Split(baseUrl, "/")), "/")
           domain == DomainMatch(baseUrl)
       IN IF StartsWith(url, <<"/">>)
          THEN (IF domain # <<>> THEN domain \o url ELSE url)
          ELSE baseDir \o <<"/">> \o url

(***************************************************************************)
(* extractHighestQualityStream.                                            *)
(***************************************************************************)
\* the test of line 60 that lets a variant replace the selection
Exceeds(bandwidth, highestBandwidth) == bandwidth > highestBandwidth

RECURSIVE ScanVariants(_, _, _, _, _)
\* the for loop of lines 53-68 from index i (0-based) on; the result is the
\* pair of locals after the loop, or threw = TRUE when resolveUrl threw
ScanVariants(lines, i, highestBandwidth, selectedStreamUrl, baseUrl) ==
  IF i >= Len(lines)
  THEN [threw |-> FALSE, highestBandwidth |-> highestBandwidth,
        selectedStreamUrl |-> selectedStreamUrl]
  ELSE LET line == lines[i + 1]
           bandwidthMatch == BandwidthMatch(line)
       IN IF /\ Includes(line, STREAM_INF)
             /\ bandwidthMatch # <<>>
             /\ Exceeds(ParseInt(bandwidthMatch), highestBandwidth)
          THEN LET streamUrl == IF i + 2 <= Len(lines) THEN lines[i + 2] ELSE Undefined
                   resolved == resolveUrl(streamUrl, baseUrl)
               IN IF resolved = Thrown
                  THEN [threw |-> TRUE, highestBandwidth |-> ParseInt(bandwidthMatch),
                        selectedStreamUrl |-> selectedStreamUrl]
                  ELSE ScanVariants(lines, i + 1, ParseInt(bandwidthMatch), resolved, baseUrl)
          ELSE ScanVariants(lines, i + 1, highestBandwidth, selectedStreamUrl, baseUrl)

\* the returned URL, or Thrown
extractHighestQualityStream(playlist, baseUrl) ==
  LET scan == ScanVariants(Split(playlist, NL), 0, 0, <<>>, baseUrl)
  IN IF scan.threw THEN Thrown ELSE scan.selectedStreamUrl

(***************************************************************************)
(* The playlists and segment bodies the transport serves.                  *)
(***************************************************************************)
EXTM3U == <<"#", "E", "X", "T", "M", "3", "U">>

EXTINF == <<"#", "E", "X", "T", "I", "N", "F", ":", "1", ",">>

ENDLIST == <<"#", "E", "X", "T", "-", "X", "-", "E", "N", "D", "L", "I", "S", "T">>

NoBandwidth == -1

\* the tag line of a variant; bw = NoBandwidth gives a tag without BANDWIDTH
StreamInfLine(bw) ==
  STREAM_INF \o <<":">> \o
  (IF bw = NoBandwidth THEN <<"C", "O", "D", "E", "C", "S", "=", "x">>
   ELSE BANDWIDTH_EQ \o ToDigits(bw))

RECURSIVE VariantLines(_, _)
\* tag line + URI line per variant; dangling drops the last URI line
VariantLines(items, dangling) ==
  IF Len(items) = 0 THEN <<>>
  ELSE IF Len(items) = 1 /\ dangling THEN <<StreamInfLine(items[1].bw)>>
  ELSE <<StreamInfLine(items[1].bw), items[1].uri>> \o VariantLines(Tail(items), dangling)

MasterText(items, dangling) == Join(<<EXTM3U>> \o VariantLines(items, dangling), NL)

RootUrl == <<"h", "t", "t", "p", ":", "/", "/", "h", "/", "d", "/", "m">>

MediaUrl == <<"h", "t", "t", "p", ":", "/", "/", "h", "/", "d", "/", "a">>

SecondMasterUrl == <<"h", "t", "t", "p", ":", "/", "/", "h", "/", "m", "2">>

\* the reference to segment n: relative, root-relative or absolute by n % 3
SegRef(n) ==
  IF n % 3 = 0 THEN <<"s">> \o ToDigits(n)
  ELSE IF n % 3 = 1 THEN <<"/", "d", "/", "s">> \o ToDigits(n)
  ELSE HTTP \o <<"h", "/", "d", "/", "s">> \o ToDigits(n)

RECURSIVE SegmentLines(_, _)
SegmentLines(n, m) ==
  IF n >= m THEN <<>> ELSE <<EXTINF, SegRef(n)>> \o SegmentLines(n + 1, m)

\* a media playlist of m segments, with comments, a blank-only line and a
\* trailing newline
MediaText(m) ==
  Join(<<EXTM3U>> \o SegmentLines(0, m) \o <<<<" ">>, ENDLIST, <<>>>>, NL)

RootKinds == {"media", "master_media", "master_master", "master_zero",
              "master_notag", "master_cycle", "master_dangling"}

NoDoc == <<"404">>

RootText(w) ==
  CASE w.root = "media" -> MediaText(w.m)
    [] w.root = "master_media" ->
         MasterText(<<[bw |-> 10, uri |-> <<"a">>], [bw |-> 9, uri |-> <<"/", "m", "2">>]>>, FALSE)
    [] w.root = "master_master" ->
         MasterText(<<[bw |-> 9, uri |-> <<"a">>], [bw |-> 10, uri |-> <<"/", "m", "2">>]>>, FALSE)
    [] w.root = "master_zero" -> MasterText(<<[bw |-> 0, uri |-> <<"a">>]>>, FALSE)
    [] w.root = "master_notag" -> MasterText(<<[bw |-> NoBandwidth, uri |-> <<"a">>]>>, FALSE)
    [] w.root = "master_cycle" -> MasterText(<<[bw |-> 5, uri |-> <<"m">>]>>, FALSE)
    [] OTHER -> MasterText(<<[bw |-> 5, uri |-> <<"a">>]>>, TRUE)

\* the text the transport serves at u in world w, NoDoc when there is none
Serve(w, u) ==
  IF u = RootUrl THEN RootText(w)
  ELSE IF u = MediaUrl THEN MediaText(w.m)
  ELSE IF u = SecondMasterUrl
  THEN MasterText(<<[bw |-> 7, uri |-> <<"d", "/", "a">>]>>, FALSE)
  ELSE NoDoc

\* the bytes of the segment served at url: one or two bytes that name it
SegmentBytes(url) ==
  LET n == IF Len(url) > 0 /\ IsDigit(url[Len(url)]) THEN DigitVal(url[Len(url)]) ELSE 0
  IN IF n % 2 = 0 THEN <<n>> ELSE <<n, n + 10>>

\* how a fetch of u can end: a string that is no URL rejects at once
FetchOutcomes(w, u) ==
  IF u = <<>> THEN {"net"}
  ELSE IF Serve(w, u) = NoDoc THEN {"http", "net"}
  ELSE {"ok", "http", "net"}

(***************************************************************************)
(* State of one run of downloadM3U8 and of the selector harness.           *)
(***************************************************************************)
VARIABLES
  world,        \* what the transport serves: [root, m]
  concurrency,  \* the concurrency argument
  url,          \* the url argument of the current downloadM3U8 call
  depth,        \* number of recursive downloadM3U8 calls made
  pc,           \* the await the main control flow is suspended at
  playlist,     \* mainPlaylist
  segments,     \* the segments array
  i,            \* the loop variable of the batch loop
  fetchState,   \* per segment index: idle, inflight, ok, http, net
  results,      \* the sorted results of the current batch
  k,            \* number of results of the current batch already written
  file,         \* the output file handle: unopened, open, closed
  openCount,    \* number of Deno.open calls that succeeded
  closeCount,   \* number of file.close() calls
  sink,         \* the bytes of the output file
  written,      \* the results handed to file.write, in write order
  completed,    \* the segment indices in the order their fetches completed
  bar,          \* the value of the progress bar
  err,          \* the error propagating through the finally block
  outcome,      \* how the promise of the outermost downloadM3U8 settled
  fetchLog,     \* every URL handed to fetch, in issue order
  batches,      \* the batches launched: [from, size], in launch order
  selItems,     \* selector harness: the variants of the master playlist
  selDangling,  \* selector harness: the last tag line has no URI line
  selResult,    \* selector harness: what extractHighestQualityStream returned
  resRef,       \* resolver harness: the url argument of resolveUrl
  resBase,      \* resolver harness: the baseUrl argument of resolveUrl
  resResult     \* resolver harness: what resolveUrl returned

vars == <<world, concurrency, url, depth, pc, playlist, segments, i, fetchState,
          results, k, file, openCount, closeCount, sink, written, completed, bar,
          err, outcome, fetchLog, batches, selItems, selDangling, selResult,
          resRef, resBase, resResult>>

selVars == <<selItems, selDangling, selResult, resRef, resBase, resResult>>

runVars == <<world, concurrency, url, depth, pc, playlist, segments, i, fetchState,
             results, k, file, openCount, closeCount, sink, written, completed, bar,
             err, outcome, fetchLog, batches>>

(***************************************************************************)
(* Errors and outcomes.                                                    *)
(***************************************************************************)
MakeError(name, message, u, status) ==
  [name |-> name, message |-> message, url |-> u, status |-> status]

NoError == MakeError("none", "", <<>>, "")

Running == MakeError("running", "", <<>>, "")

Completed == MakeError("completed", "", <<>>, "")

\* a rejected fetch(): the transport's own TypeError, not wrapped by the code
NetworkFailure == MakeError("TypeError", "fetch failed", <<>>, "")

\* line 42
FetchTextError(u) == MakeError("Error", "Failed to fetch", u, "404 Not Found")

\* line 138
SegmentError(u) == MakeError("Error", "Failed to fetch segment", u, "404 Not Found")

\* url.startsWith on undefined, line 146
UndefinedUrlError == MakeError("TypeError", "startsWith of undefined", <<>>, "")

\* a rejected ensureDir, Deno.open or file.write
IoError(op) == MakeError("IoError", op, <<>>, "")

\* the old bytes of the output file, before the run
OldContents == <<255>>

(***************************************************************************)
(* processMediaPlaylist: pure parts.                                       *)
(***************************************************************************)
RECURSIVE ExtractSegmentsNoTrim(_, _)
\* ExtractSegments without the test line.trim().length > 0
ExtractSegmentsNoTrim(lines, baseUrl) ==
  IF Len(lines) = 0 THEN <<>>
  ELSE LET line == lines[1]
       IN (IF ~StartsWith(line, <<"#">>)
           THEN <<resolveUrl(line, baseUrl)>> ELSE <<>>)
          \o ExtractSegmentsNoTrim(Tail(lines), baseUrl)

RECURSIVE ExtractSegmentsKeepComments(_, _)
\* ExtractSegments without the test !line.startsWith('#')
ExtractSegmentsKeepComments(lines, baseUrl) ==
  IF Len(lines) = 0 THEN <<>>
  ELSE LET line == lines[1]
       IN (IF Len(Trim(line)) > 0
           THEN <<resolveUrl(line, baseUrl)>> ELSE <<>>)
          \o ExtractSegmentsKeepComments(Tail(lines), baseUrl)

RECURSIVE ExtractSegments(_, _)
\* lines 80-84 over the array of lines
ExtractSegments(lines, baseUrl) ==
  IF Len(lines) = 0 THEN <<>>
  ELSE LET line == lines[1]
       IN (IF ~StartsWith(line, <<"#">>) /\ Len(Trim(line)) > 0
           THEN <<resolveUrl(line, baseUrl)>> ELSE <<>>)
          \o ExtractSegments(Tail(lines), baseUrl)

Min(a, b) == IF a <= b THEN a ELSE b

\* array.slice(from, to) with 0-based bounds
Slice(array, from, to) == SubSeq(array, from + 1, Min(to, Len(array)))

\* Batch with the end of the slice off by one
BatchOffByOne(segs, from, c) == Slice(segs, from, from + c + 1)

\* line 107
Batch(segs, from, c) == Slice(segs, from, from + c)

\* line 109
BatchIndex(from, index) == from + index

\* lines 108-117: what Promise.all resolves to, in the order of the promises
PromiseAllResults(batch, from) ==
  [p \in 1..Len(batch) |->
     [index |-> BatchIndex(from, p - 1), data |-> SegmentBytes(batch[p])]]

\* SortByIndex with the comparator (a, b) => b.index - a.index
SortByIndexDescending(rs) ==
  [p \in 1..Len(rs) |->
     rs[CHOOSE q \in 1..Len(rs) :
          Cardinality({t \in 1..Len(rs) :
                         \/ rs[q].index - rs[t].index < 0
                         \/ (rs[q].index - rs[t].index = 0 /\ t < q)}) = p - 1]]

\* line 120: results.sort((a, b) => a.index - b.index), a stable sort: the
\* result at place p is the one that p - 1 others come before, those the
\* comparator puts first and, among equals, those that stood first
SortByIndex(rs) ==
  [p \in 1..Len(rs) |->
     rs[CHOOSE q \in 1..Len(rs) :
          Cardinality({t \in 1..Len(rs) :
                         \/ rs[t].index - rs[q].index < 0
                         \/ (rs[t].index - rs[q].index = 0 /\ t < q)}) = p - 1]]

\* SegmentFails without the test of response.ok
SegmentFailsOnRejectOnly(r) == r = "net"

\* SegmentFails of a downloadSegment that swallows every failure
SegmentFailsNever(r) == FALSE

\* lines 136-139: whether downloadSegment throws on fetch outcome r
SegmentFails(r) == r # "ok"

\* SegmentFailure with a message that does not name the URL
SegmentFailureNoUrl(r, u) == IF r = "http" THEN SegmentError(<<>>) ELSE NetworkFailure

\* the error downloadSegment throws on outcome r for segment URL u
SegmentFailure(r, u) == IF r = "http" THEN SegmentError(u) ELSE NetworkFailure

\* the indices of the batch that starts at from
BatchIndices(from) == {j \in DOMAIN fetchState : from <= j /\ j < from + Len(Batch(segments, from, concurrency))}

\* BatchWritten leaving the loop over results after its first write
BatchWrittenEarly(n, rs) == n >= 1

\* line 121: the for loop over results has written them all
BatchWritten(n, rs) == n >= Len(rs)

(***************************************************************************)
(* The run: one action per continuation of the main control flow (the code *)
(* between two awaits) and one for the completion of a segment fetch.      *)
(***************************************************************************)
Worlds ==
  {w \in [root : RootKinds, m : 0..MaxSegs] :
     w.root \in {"media", "master_media", "master_master"} \/ w.m = 0}

Init ==
  /\ world \in Worlds
  /\ concurrency \in 1..MaxConcurrency
  /\ url = RootUrl
  /\ depth = 0
  /\ pc = "fetchText"
  /\ playlist = <<>>
  /\ segments = <<>>
  /\ i = 0
  /\ fetchState = <<>>
  /\ results = <<>>
  /\ k = 0
  /\ file = "unopened"
  /\ openCount = 0
  /\ closeCount = 0
  /\ sink = OldContents
  /\ written = <<>>
  /\ completed = <<>>
  /\ bar = 0
  /\ err = NoError
  /\ outcome = Running
  /\ fetchLog = <<RootUrl>>
  /\ batches = <<>>
  /\ selItems = <<>>
  /\ selDangling = FALSE
  /\ selResult = <<"idle">>
  /\ resRef = <<>>
  /\ resBase = <<>>
  /\ resResult = <<"idle">>

\* Finally without file.close()
FinallyLeak ==
  /\ file' = "open"
  /\ closeCount' = closeCount
  /\ pc' = "barEnd"

\* lines 126-131: file.close() in the finally block, then await bar.end()
Finally ==
  /\ file' = "closed"
  /\ closeCount' = closeCount + 1
  /\ pc' = "barEnd"

\* lines 106-117 at loop index n: launch the batch at n and await Promise.all,
\* or leave the loop into the finally block
Loop(n) ==
  /\ i' = n
  /\ IF n < Len(segments)
     THEN /\ fetchState' = [j \in DOMAIN fetchState |->
                              IF j \in BatchIndices(n) THEN "inflight" ELSE fetchState[j]]
          /\ fetchLog' = fetchLog \o Batch(segments, n, concurrency)
          /\ batches' = Append(batches, [from |-> n,
                                          size |-> Len(Batch(segments, n, concurrency))])
          /\ file' = "open"
          /\ closeCount' = closeCount
          /\ pc' = "join"
     ELSE /\ UNCHANGED <<fetchState, fetchLog, batches>>
          /\ Finally

\* IsMasterPlaylist of a classifier that takes every playlist for a media one
IsMasterNever(text) == FALSE

\* line 17: the playlist is a master playlist
IsMasterPlaylist(text) == Includes(text, STREAM_INF)

\* Recurse with a depth limit of one redirection
RecurseCapped(streamUrl) ==
  IF depth >= 1
  THEN /\ outcome' = MakeError("MalformedPlaylistError", "depth", streamUrl, "")
       /\ pc' = "done"
       /\ UNCHANGED <<url, depth, fetchLog>>
  ELSE /\ url' = streamUrl
       /\ depth' = depth + 1
       /\ fetchLog' = Append(fetchLog, streamUrl)
       /\ UNCHANGED <<pc, outcome>>

\* line 21: the recursive call, up to its await fetchText(streamUrl)
Recurse(streamUrl) ==
  /\ url' = streamUrl
  /\ depth' = depth + 1
  /\ fetchLog' = Append(fetchLog, streamUrl)
  /\ UNCHANGED <<pc, outcome>>

\* lines 14-35: the continuation of downloadM3U8 after await fetchText(url)
PlaylistFetched ==
  /\ pc = "fetchText"
  /\ \E r \in FetchOutcomes(world, url) :
       IF r = "ok"
       THEN LET text == Serve(world, url)
            IN /\ playlist' = text
               /\ IF IsMasterPlaylist(text)
                  THEN LET streamUrl == extractHighestQualityStream(text, url)
                       IN IF streamUrl = Thrown
                          THEN /\ outcome' = UndefinedUrlError
                               /\ pc' = "done"
                               /\ UNCHANGED <<url, depth, fetchLog>>
                          ELSE /\ depth < MaxDepth
                               /\ Recurse(streamUrl)
                  ELSE /\ pc' = "ensureDir"
                       /\ UNCHANGED <<url, depth, fetchLog, outcome>>
       ELSE /\ outcome' = (IF r = "http" THEN FetchTextError(url) ELSE NetworkFailure)
            /\ pc' = "done"
            /\ UNCHANGED <<url, depth, fetchLog, playlist>>
  /\ UNCHANGED <<world, concurrency, segments, i, fetchState, results, k, file,
                 openCount, closeCount, sink, written, completed, bar, err, batches>>
  /\ UNCHANGED selVars

\* lines 26-89: after await ensureDir, processMediaPlaylist up to await Deno.open
EnsureDirDone ==
  /\ pc = "ensureDir"
  /\ \E ok \in BOOLEAN :
       IF ok
       THEN /\ segments' = ExtractSegments(Split(playlist, NL), url)
            /\ fetchState' = [j \in 0..(Len(segments') - 1) |-> "idle"]
            /\ pc' = "open"
            /\ UNCHANGED outcome
       ELSE /\ outcome' = IoError("ensureDir")
            /\ pc' = "done"
            /\ UNCHANGED <<segments, fetchState>>
  /\ UNCHANGED <<world, concurrency, url, depth, playlist, i, results, k, file,
                 openCount, closeCount, sink, written, completed, bar, err, fetchLog,
                 batches>>
  /\ UNCHANGED selVars

\* lines 89-117 and 126-131: after await Deno.open, up to the first join or,
\* with no segments, through the finally block
OpenDone ==
  /\ pc = "open"
  /\ \E ok \in BOOLEAN :
       IF ok
       THEN /\ openCount' = openCount + 1
            /\ sink' = <<>>
            /\ bar' = 0
            /\ Loop(0)
            /\ UNCHANGED outcome
       ELSE /\ outcome' = IoError("open")
            /\ pc' = "done"
            /\ UNCHANGED <<openCount, sink, bar, i, fetchState, fetchLog, batches, file,
                            closeCount>>
  /\ UNCHANGED <<world, concurrency, url, depth, playlist, segments, results, k,
                 written, completed, err>>
  /\ UNCHANGED selVars

\* lines 108-122 and 126-131 and 135-142: one fetch of a segment completes.
\* While the main flow awaits Promise.all, the first failure rejects it and
\* runs the finally block, and the last success resolves it, sorts the
\* results and issues the first write. Later completions change nothing else.
SegmentFetched ==
  /\ \E j \in DOMAIN fetchState, r \in {"ok", "http", "net"} :
       /\ fetchState[j] = "inflight"
       /\ fetchState' = [fetchState EXCEPT ![j] = r]
       /\ completed' = Append(completed, j)
       /\ IF pc = "join" /\ SegmentFails(r)
          THEN /\ err' = SegmentFailure(r, segments[j + 1])
               /\ Finally
               /\ UNCHANGED <<results, k>>
          ELSE IF /\ pc = "join"
                  /\ \A h \in BatchIndices(i) :
                       fetchState'[h] # "inflight" /\ ~SegmentFails(fetchState'[h])
          THEN /\ results' = SortByIndex(PromiseAllResults(Batch(segments, i, concurrency), i))
               /\ k' = 0
               /\ pc' = "write"
               /\ UNCHANGED <<err, file, closeCount>>
          ELSE UNCHANGED <<results, k, pc, err, file, closeCount>>
  /\ UNCHANGED <<world, concurrency, url, depth, playlist, segments, i, openCount,
                 sink, written, bar, outcome, fetchLog, batches>>
  /\ UNCHANGED selVars

\* BarAdd called with the size of the batch instead of 1
BarAddBatch(value, n) == value + n * Len(results)

\* line 123: bar.add(n)
BarAdd(value, n) == value + n

\* NextIndex that does not advance (i += 0)
NextIndexNoAdvance(n, c) == n

\* NextIndex advancing by one segment instead of one batch
NextIndexByOne(n, c) == n + 1

\* line 106: i += concurrency
NextIndex(n, c) == n + c

\* lines 121-131: after await file.write(result.data): bar.add(1), then the
\* next write, the next batch or the finally block
WriteDone ==
  /\ pc = "write"
  /\ \E ok \in BOOLEAN :
       IF ok
       THEN /\ sink' = sink \o results[k + 1].data
            /\ written' = Append(written, results[k + 1])
            /\ bar' = BarAdd(bar, 1)
            /\ k' = k + 1
            /\ IF BatchWritten(k + 1, results)
               THEN Loop(NextIndex(i, concurrency))
               ELSE UNCHANGED <<i, fetchState, fetchLog, batches, file, closeCount, pc>>
            /\ UNCHANGED err
       ELSE /\ err' = IoError("write")
            /\ Finally
            /\ UNCHANGED <<sink, written, bar, k, i, fetchState, fetchLog, batches>>
  /\ UNCHANGED <<world, concurrency, url, depth, playlist, segments, results,
                 openCount, completed, outcome>>
  /\ UNCHANGED selVars

\* lines 130-131 and 31-35: after await bar.end(), the run settles
BarEndDone ==
  /\ pc = "barEnd"
  /\ outcome' = (IF err = NoError THEN Completed ELSE err)
  /\ pc' = "done"
  /\ UNCHANGED <<world, concurrency, url, depth, playlist, segments, i, fetchState,
                 results, k, file, openCount, closeCount, sink, written, completed, bar,
                 err, fetchLog, batches>>
  /\ UNCHANGED selVars

Next ==
  \/ PlaylistFetched
  \/ EnsureDirDone
  \/ OpenDone
  \/ SegmentFetched
  \/ WriteDone
  \/ BarEndDone

Spec == Init /\ [][Next]_vars

(***************************************************************************)
(* The run under the assumption that every awaited operation settles:      *)
(* every issued fetch completes (with a response or a rejection), and so   *)
(* do Deno.open, file.write and bar.end. fetchText and ensureDir come      *)
(* before processMediaPlaylist and carry no assumption.                    *)
(***************************************************************************)
FairSpec ==
  /\ Spec
  /\ WF_vars(OpenDone)
  /\ WF_vars(SegmentFetched)
  /\ WF_vars(WriteDone)
  /\ WF_vars(BarEndDone)

(***************************************************************************)
(* The selector harness: extractHighestQualityStream applied to every      *)
(* master playlist of a bounded set.                                       *)
(***************************************************************************)
VariantRefs == {<<"a">>, <<"/", "m", "2">>}

Bandwidths == {5 * b : b \in 0..MaxBandwidth}

Variants == [bw : Bandwidths \cup {NoBandwidth}, uri : VariantRefs]

InitSel ==
  /\ selItems \in UNION {[1..n -> Variants] : n \in 1..MaxVariants}
  /\ selDangling \in BOOLEAN
  /\ selResult = <<"pending">>
  /\ world = [root |-> "media", m |-> 0]
  /\ concurrency = 1
  /\ url = RootUrl
  /\ depth = 0
  /\ pc = "idle"
  /\ playlist = MasterText(selItems, selDangling)
  /\ segments = <<>>
  /\ i = 0
  /\ fetchState = <<>>
  /\ results = <<>>
  /\ k = 0
  /\ file = "unopened"
  /\ openCount = 0
  /\ closeCount = 0
  /\ sink = OldContents
  /\ written = <<>>
  /\ completed = <<>>
  /\ bar = 0
  /\ err = NoError
  /\ outcome = Running
  /\ fetchLog = <<>>
  /\ batches = <<>>
  /\ resRef = <<>>
  /\ resBase = <<>>
  /\ resResult = <<"idle">>

\* line 19
SelectVariant ==
  /\ selResult = <<"pending">>
  /\ selResult' = extractHighestQualityStream(playlist, url)
  /\ UNCHANGED <<selItems, selDangling, resRef, resBase, resResult>>
  /\ UNCHANGED runVars

NextSel == SelectVariant

SpecSel == InitSel /\ [][NextSel]_vars

(***************************************************************************)
(* The resolver on its own: resolveUrl applied to one reference and one    *)
(* base URL. The base URLs are URLs that fetch accepts: a scheme in either *)
(* case, a host, and a path of up to MaxPath segments with or without a    *)
(* trailing slash. The references are the three kinds of line 145 and 154: *)
(* absolute, root-relative and relative, the empty reference included.     *)
(***************************************************************************)
HTTP_UPPER == <<"H", "T", "T", "P", ":", "/", "/">>

BaseSchemes == {HTTP, HTTPS, HTTP_UPPER}

RECURSIVE Paths(_)
\* the paths of n segments
Paths(n) ==
  IF n = 0 THEN {<<>>}
  ELSE {p \o <<"/", c>> : p \in Paths(n - 1), c \in {"d", "m"}}

BaseUrls ==
  {scheme \o <<"h">> \o p \o tail :
     scheme \in BaseSchemes,
     p \in UNION {Paths(n) : n \in 0..MaxPath},
     tail \in {<<>>, <<"/">>}}

References ==
  {prefix \o body :
     prefix \in {<<>>, <<"/">>, HTTP, HTTPS},
     body \in {<<>>, <<"s">>, <<"x", "/", "s">>}}

InitResolve ==
  /\ resRef \in References
  /\ resBase \in BaseUrls
  /\ resResult = <<"pending">>
  /\ selItems = <<>>
  /\ selDangling = FALSE
  /\ selResult = <<"idle">>
  /\ world = [root |-> "media", m |-> 0]
  /\ concurrency = 1
  /\ url = resBase
  /\ depth = 0
  /\ pc = "idle"
  /\ playlist = <<>>
  /\ segments = <<>>
  /\ i = 0
  /\ fetchState = <<>>
  /\ results = <<>>
  /\ k = 0
  /\ file = "unopened"
  /\ openCount = 0
  /\ closeCount = 0
  /\ sink = OldContents
  /\ written = <<>>
  /\ completed = <<>>
  /\ bar = 0
  /\ err = NoError
  /\ outcome = Running
  /\ fetchLog = <<>>
  /\ batches = <<>>

\* lines 64 and 83
ResolveReference ==
  /\ resResult = <<"pending">>
  /\ resResult' = resolveUrl(resRef, resBase)
  /\ UNCHANGED <<selItems, selDangling, selResult, resRef, resBase>>
  /\ UNCHANGED runVars

NextResolve == ResolveReference

SpecResolve == InitResolve /\ [][NextResolve]_vars

(***************************************************************************)
(* Vocabulary of the properties.                                           *)
(***************************************************************************)
\* the URL the transport serves segment n of the media playlist at
SegmentUrl(n) == HTTP \o <<"h", "/", "d", "/", "s">> \o ToDigits(n)

RECURSIVE PayloadsFrom(_, _)
\* the payloads of segments n..m-1 of the media playlist, concatenated
PayloadsFrom(n, m) ==
  IF n >= m THEN <<>> ELSE SegmentBytes(SegmentUrl(n)) \o PayloadsFrom(n + 1, m)

WrittenIndices == {written[n].index : n \in 1..Len(written)}

InFlight == {j \in DOMAIN fetchState : fetchState[j] = "inflight"}

Failed == {j \in DOMAIN fetchState : fetchState[j] \in {"http", "net"}}

\* the buffers of fetched segments that have not been written
Held == {j \in DOMAIN fetchState : fetchState[j] = "ok" /\ j \notin WrittenIndices}

BatchOf(j) == j \div concurrency

\* a later segment of a batch completed before an earlier one of that batch
OutOfOrder ==
  \E a, b \in 1..Len(completed) :
    a < b /\ completed[a] > completed[b] /\ BatchOf(completed[a]) = BatchOf(completed[b])

\* the run reached processMediaPlaylist's input: a fetched media playlist
MediaReached == playlist # <<>> /\ ~Includes(playlist, STREAM_INF)

(***************************************************************************)
(* C1. The n-th write (from 0) carries the segment of index n: the indices *)
(* written are 0, 1, 2, ... without gap or duplicate, and the bytes of the *)
(* n-th write are those of the n-th segment URL, whatever the order in     *)
(* which the fetches of a batch completed.                                 *)
(***************************************************************************)
C1_WritesInIndexOrder ==
  \A n \in 1..Len(written) :
    /\ written[n].index = n - 1
    /\ written[n].data = SegmentBytes(segments[n])

C1_Witness ==
  /\ OutOfOrder
  /\ concurrency >= 2
  /\ Len(written) > concurrency

(***************************************************************************)
(* C2. As stated: when the sink was opened, the fetch of each of the M     *)
(* segments of the media playlist has succeeded and the run has ended,     *)
(* exactly M segments were written and the sink holds the payloads 0..M-1  *)
(* concatenated.                                                           *)
(***************************************************************************)
AllSegmentsFetched ==
  /\ MediaReached
  /\ openCount = 1
  /\ \A n \in 0..(world.m - 1) : n \in DOMAIN fetchState /\ fetchState[n] = "ok"

C3_BatchBarrier ==
  \A j \in DOMAIN fetchState :
    fetchState[j] # "idle" =>
      \A h \in DOMAIN fetchState :
        BatchOf(h) < BatchOf(j) => (fetchState[h] = "ok" /\ h \in WrittenIndices)

C3_Witness ==
  \E j \in InFlight : BatchOf(j) >= 1 /\ concurrency >= 2

(***************************************************************************)
(* C4. The fetches in flight plus the fetched buffers not yet written are  *)
(* at most C.                                                              *)
(***************************************************************************)
C4_AtMostCInFlight == Cardinality(InFlight) + Cardinality(Held) <= concurrency

C4_Witness ==
  /\ Cardinality(InFlight) + Cardinality(Held) = concurrency
  /\ InFlight # {}
  /\ Held # {}
  /\ i > 0

(***************************************************************************)
(* C5. No segment of a batch with a failed fetch is ever written; the sink *)
(* then holds exactly the segments of the batches before it.               *)
(***************************************************************************)
C5_FailedBatchNotWritten ==
  \A j \in Failed :
    LET first == BatchOf(j) * concurrency
    IN /\ \A h \in DOMAIN fetchState : BatchOf(h) = BatchOf(j) => h \notin WrittenIndices
       /\ WrittenIndices = 0..(first - 1)
       /\ Len(written) = first
       /\ openCount = 1 /\ sink = PayloadsFrom(0, first)

C5_Witness ==
  /\ pc = "done"
  /\ \E j \in Failed, h \in DOMAIN fetchState :
       /\ BatchOf(j) >= 1
       /\ h # j /\ BatchOf(h) = BatchOf(j) /\ fetchState[h] = "ok"
       /\ Len(completed) > 1 /\ completed[Len(completed)] = h

(***************************************************************************)
(* C6. The sink is never closed twice, is closed only after it was opened, *)
(* and when download has ended, on whatever path, a sink that was opened   *)
(* has been closed exactly once.                                           *)
(***************************************************************************)
C6_ClosedExactlyOnce ==
  /\ closeCount <= 1
  /\ closeCount <= openCount
  /\ openCount <= 1
  /\ (file = "closed") = (closeCount = 1)
  /\ (file = "unopened") = (openCount = 0)
  /\ pc = "done" => (openCount = 1 => (file = "closed" /\ closeCount = 1))

C6_Witness ==
  /\ pc = "done"
  /\ openCount = 1
  /\ closeCount = 1
  /\ outcome = IoError("write")
  /\ Len(written) >= 1

(***************************************************************************)
(* C7. As stated, taking the Error of line 138 (the only error the code    *)
(* raises for a segment, its message naming the URL and the status) as the *)
(* SegmentFetchError: once a segment fetch got a non-2xx response and the  *)
(* run has ended, the outcome is that error for a segment URL that got a   *)
(* non-2xx response, and the sink is closed.                               *)
(***************************************************************************)
NonOk == {j \in DOMAIN fetchState : fetchState[j] = "http"}

FirstFailed ==
  completed[CHOOSE a \in 1..Len(completed) :
              /\ completed[a] \in Failed
              /\ \A b \in 1..(a - 1) : completed[b] \notin Failed]

Selected == selResult \notin {<<"idle">>, <<"pending">>}

AllHaveBandwidth ==
  ~selDangling /\ \A n \in 1..Len(selItems) : selItems[n].bw # NoBandwidth

MaxBw == CHOOSE b \in {selItems[n].bw : n \in 1..Len(selItems)} :
           \A n \in 1..Len(selItems) : selItems[n].bw <= b

FirstOfMax ==
  CHOOSE n \in 1..Len(selItems) :
    selItems[n].bw = MaxBw /\ \A h \in 1..(n - 1) : selItems[h].bw # MaxBw

C8_SelectsMaxBandwidth ==
  (/\ Selected
   /\ AllHaveBandwidth
   /\ \A a, b \in 1..Len(selItems) : a # b => selItems[a].bw # selItems[b].bw)
    => selResult = resolveUrl(selItems[FirstOfMax].uri, url)

(***************************************************************************)
(* C9. As stated: when two variants share the maximum bandwidth, the       *)
(* selector returns the resolved URI of the first of them.                 *)
(***************************************************************************)
C9_FirstOfTiedMaxWins ==
  (/\ Selected
   /\ AllHaveBandwidth
   /\ \E a, b \in 1..Len(selItems) :
        a # b /\ selItems[a].bw = MaxBw /\ selItems[b].bw = MaxBw)
    => selResult = resolveUrl(selItems[FirstOfMax].uri, url)

(***************************************************************************)
(* C10. As stated: when the scan of a fetched master playlist selects no   *)
(* variant, no fetch of the empty URL is issued, downloadM3U8 is not       *)
(* called again, and the run ends with NoVariantFoundError.                *)
(***************************************************************************)
NoVariantSelected ==
  /\ Includes(playlist, STREAM_INF)
  /\ LET scan == ScanVariants(Split(playlist, NL), 0, 0, <<>>, url)
     IN ~scan.threw /\ scan.selectedStreamUrl = <<>>

C10_NoFetchWithoutVariant ==
  NoVariantSelected
    => /\ \A n \in 1..Len(fetchLog) : fetchLog[n] # <<>>
       /\ url # <<>>
       /\ pc = "done" => outcome.name = "NoVariantFoundError"

(***************************************************************************)
(* C11. As stated, taking any error thrown by the selector as the          *)
(* MalformedPlaylistError: when the last line of a master playlist is a    *)
(* stream-info tag line, variant selection ends in an error.               *)
(***************************************************************************)
C11_DanglingTagIsAnError ==
  (Selected /\ selDangling) => selResult = Thrown

(***************************************************************************)
(* C12. As stated, with the limit put at DepthLimit redirections: no call  *)
(* of downloadM3U8 and no fetch is made beyond the limit; a run whose      *)
(* chain of master playlists is longer ends with MalformedPlaylistError.   *)
(***************************************************************************)
DepthLimit == MaxDepth - 1

C12_DepthIsCapped ==
  /\ depth <= DepthLimit
  /\ (pc = "done" /\ depth = DepthLimit /\ IsMasterPlaylist(playlist)
        /\ Serve(world, url) # NoDoc /\ outcome.name = "Error")
       => outcome.name = "MalformedPlaylistError"

(***************************************************************************)
(* C12, what the code does. Resolution has no depth limit: at every depth  *)
(* the call fetches the URL that the scan of the master playlist one level *)
(* up returned; a run that ends at a master playlist ends because a fetch  *)
(* failed or the scan threw, never with MalformedPlaylistError. On a       *)
(* master playlist that selects itself the chain goes on for as long as    *)
(* the fetches succeed (the witness: it reaches every depth of the model). *)
(***************************************************************************)
C12_ResolutionUnbounded ==
  /\ outcome.name # "MalformedPlaylistError"
  /\ (pc = "done" /\ IsMasterPlaylist(playlist))
       => outcome \in {FetchTextError(url), NetworkFailure, UndefinedUrlError}
  /\ Len(fetchLog) >= depth + 1
  /\ fetchLog[depth + 1] = url
  /\ \A d \in 1..depth :
       /\ IsMasterPlaylist(Serve(world, fetchLog[d]))
       /\ fetchLog[d + 1] = extractHighestQualityStream(Serve(world, fetchLog[d]), fetchLog[d])

C12_Witness ==
  /\ world.root = "master_cycle"
  /\ depth = MaxDepth
  /\ depth >= 2
  /\ pc = "fetchText"
  /\ \A n \in 1..Len(fetchLog) : fetchLog[n] = RootUrl

(***************************************************************************)
(* C13. resolveUrl equals the reference resolver on every reference and    *)
(* base URL of the harness: an absolute reference is returned unchanged, a *)
(* root-relative one is put after the scheme and authority of the base     *)
(* URL, any other is put after the base URL cut before its last slash.     *)
(***************************************************************************)
\* the reference resolver, in the words of the claim
ReferenceResolver(reference, baseUrl) ==
  LET slashes == {n \in 1..Len(baseUrl) : baseUrl[n] = "/"}
      lastSlash == CHOOSE n \in slashes : \A q \in slashes : q <= n
      \* the authority starts after the first "://"
      marks == {n \in 1..(Len(baseUrl) - 2) :
                  SubSeq(baseUrl, n, n + 2) = <<":", "/", "/">>}
      authority == (CHOOSE n \in marks : \A q \in marks : n <= q) + 3
      after == {n \in slashes : n >= authority}
      origin == IF after = {} THEN baseUrl
                ELSE SubSeq(baseUrl, 1,
                            (CHOOSE n \in after : \A q \in after : n <= q) - 1)
  IN IF StartsWith(reference, HTTP) \/ StartsWith(reference, HTTPS)
     THEN reference
     ELSE IF StartsWith(reference, <<"/">>)
     THEN origin \o reference
     ELSE SubSeq(baseUrl, 1, lastSlash - 1) \o <<"/">> \o reference

Resolved == resResult \notin {<<"idle">>, <<"pending">>}

C13_EqualsReference ==
  Resolved => resResult = ReferenceResolver(resRef, resBase)

(***************************************************************************)
(* C13, what the code does. On a base URL that starts with http:// or      *)
(* https:// in lower case resolveUrl equals the reference resolver; on any *)
(* other base URL a root-relative reference is returned unchanged.         *)
(***************************************************************************)
LowerCaseScheme == StartsWith(resBase, HTTP) \/ StartsWith(resBase, HTTPS)

C13_EqualsReferenceOnLowerCaseScheme ==
  Resolved =>
    resResult = IF ~LowerCaseScheme /\ StartsWith(resRef, <<"/">>)
                THEN resRef
                ELSE ReferenceResolver(resRef, resBase)

C13_Witness ==
  /\ Resolved
  /\ resRef = <<"/", "x", "/", "s">>
  /\ resBase = HTTPS \o <<"h", "/", "d", "/", "m">>
  /\ resResult = HTTPS \o <<"h", "/", "x", "/", "s">>

(***************************************************************************)
(* C14. As stated: a run on a playlist without the stream-info marker and  *)
(* without a URI line issues no fetch of a segment, writes nothing, leaves *)
(* the output file created, empty and closed, and ends without error.      *)
(***************************************************************************)
\* the playlist of the current call has no marker and no non-comment URI line
EmptyMediaPlaylist ==
  /\ MediaReached
  /\ \A n \in 1..Len(Split(playlist, NL)) :
       LET line == Split(playlist, NL)[n]
       IN StartsWith(line, <<"#">>) \/ Trim(line) = <<>>

NoSegmentFetched ==
  /\ Len(fetchLog) = depth + 1
  /\ batches = <<>>
  /\ written = <<>>
  /\ bar = 0

CeilDiv(m, c) == (m + c - 1) \div c

\* the URLs of the segment fetches issued so far, in the order of issue
SegmentFetches == SubSeq(fetchLog, depth + 2, Len(fetchLog))

\* the batches started so far that hold index j
BatchesHolding(j) ==
  {b \in 1..Len(batches) : batches[b].from <= j /\ j < batches[b].from + batches[b].size}

C15_BatchesAreRanges ==
  LET M == Len(segments)
      C == concurrency
  IN /\ Len(batches) <= CeilDiv(M, C)
     /\ \A b \in 1..Len(batches) :
          /\ batches[b].from = (b - 1) * C
          /\ batches[b].size = Min((b * C), M) - batches[b].from
          /\ batches[b].size \in 1..C
          /\ batches[b].size < C => b = CeilDiv(M, C)
     /\ batches # <<>> =>
          SegmentFetches = SubSeq(segments, 1, Min(Len(batches) * C, M))
     /\ outcome = Completed =>
          /\ Len(batches) = CeilDiv(M, C)
          /\ \A j \in 0..(M - 1) : Cardinality(BatchesHolding(j)) = 1

C15_Witness ==
  /\ concurrency = 2
  /\ Len(segments) = 5
  /\ outcome = Completed
  /\ [b \in 1..Len(batches) |-> batches[b].size] = <<2, 2, 1>>

(***************************************************************************)
(* C16. The flow is past the join of a batch (writing, closing the sink,   *)
(* ending the progress bar or settled) only when no fetch of that batch is *)
(* in flight: the sink is never closed and the run never ends while a      *)
(* fetch is in flight.                                                     *)
(***************************************************************************)
C16_JoinWaitsForEveryFetch ==
  (file = "closed" \/ pc \in {"write", "barEnd", "done"}) => InFlight = {}

(***************************************************************************)
(* C17. Once a fetch of a segment has failed, no step of the run issues a  *)
(* fetch (of a later batch or again of the failed segment), starts a       *)
(* batch or writes to the sink: the failed fetches stay failed, the        *)
(* fetches not yet issued stay unissued, and the sink keeps its contents.  *)
(***************************************************************************)
Unissued == {j \in DOMAIN fetchState : fetchState[j] = "idle"}

C17_FailureIsFatal ==
  [][Failed # {} =>
       /\ fetchLog' = fetchLog
       /\ batches' = batches
       /\ \A j \in Failed : fetchState'[j] = fetchState[j]
       /\ \A j \in Unissued : fetchState'[j] = "idle"
       /\ written' = written
       /\ sink' = sink
       /\ bar' = bar]_vars

\* a fetch of the second batch has failed after the first batch was written,
\* a third batch was never started and the run has ended
C17_Witness ==
  /\ pc = "done"
  /\ \E j \in Failed : BatchOf(j) = 1
  /\ Unissued # {}
  /\ written # <<>>
  /\ outcome.name \in {"Error", "TypeError"}

(***************************************************************************)
(* C18. In every state the progress counter equals the number of segments  *)
(* written to the sink so far; it never exceeds the number M of segments,  *)
(* it equals M when the run has completed, and a step changes it only by   *)
(* adding one, together with one write.                                    *)
(***************************************************************************)
C18_CounterCountsWrites ==
  /\ [](/\ bar = Len(written)
        /\ bar <= Len(segments)
        /\ outcome = Completed => bar = Len(segments))
  /\ [][/\ bar' # bar => (bar' = bar + 1 /\ Len(sink') > Len(sink))
        /\ written' # written => bar' = bar + 1]_vars

\* a completed run of several batches, the last one short
C18_Witness ==
  /\ outcome = Completed
  /\ Len(segments) = MaxSegs
  /\ concurrency = 2
  /\ bar = MaxSegs
  /\ Len(written) = MaxSegs

(***************************************************************************)
(* C19. The sink is opened, and the output file truncated, only once a     *)
(* media playlist has been fetched: until then, and for good when the run  *)
(* ends on a failed playlist fetch or a failed variant selection at any    *)
(* depth, the file is unopened and holds its old contents.                 *)
(***************************************************************************)
C19_SinkOpenedOnlyForMedia ==
  /\ openCount > 0 => (MediaReached /\ pc \in {"join", "write", "barEnd", "done"})
  /\ pc \in {"fetchText", "ensureDir", "open"} =>
       (openCount = 0 /\ file = "unopened" /\ sink = OldContents)
  /\ (pc = "done" /\ ~MediaReached) =>
       /\ outcome \in {FetchTextError(url), NetworkFailure, UndefinedUrlError}
       /\ openCount = 0 /\ file = "unopened" /\ sink = OldContents

\* the fetch of the variant playlist of a master playlist has failed
C19_Witness ==
  /\ pc = "done"
  /\ depth >= 1
  /\ IsMasterPlaylist(playlist)
  /\ outcome = FetchTextError(url)
  /\ openCount = 0 /\ file = "unopened" /\ sink = OldContents

(***************************************************************************)
(* C20. When every issued fetch completes, processMediaPlaylist, once      *)
(* called, terminates; it has then started at most ceil(M/C) batches and   *)
(* issued at most one fetch for each segment index.                        *)
(***************************************************************************)
C20_Terminates ==
  /\ (pc = "open") ~> (pc = "done")
  /\ [](/\ Len(batches) <= CeilDiv(Len(segments), concurrency)
        /\ Len(SegmentFetches) <= Len(segments)
        /\ \A j \in 0..(Len(segments) - 1) : Cardinality(BatchesHolding(j)) <= 1)

\* processMediaPlaylist has returned after the last of several batches
C20_Witness ==
  /\ pc = "done"
  /\ outcome = Completed
  /\ Len(segments) = MaxSegs
  /\ Len(batches) = CeilDiv(MaxSegs, concurrency)
  /\ Len(batches) >= 2
  /\ Len(SegmentFetches) = MaxSegs

====
